---------------------------- MODULE Spec2Model ----------------------------
(***************************************************************************)
(* Bulk reconciliation of downtime reasons (labels) against assets         *)
(* (target ids) into tbl_downtime_reason, as implemented twice:            *)
(*   - src/app.py                   process_upload  (caller "web")         *)
(*   - src/bulk-upload-from-file.py load_excel / expand_per_asset /        *)
(*                                  upsert_data     (caller "batch")       *)
(*                                                                         *)
(* Text is a sequence of one-character strings.  A raw target id is the    *)
(* text of the value the caller supplied (a JSON value for the web         *)
(* handler, one comma-separated piece of ASSET_IDS for the importer).      *)
(* Python lists whose order the SQL never observes (records, the temp      *)
(* table, the main table) are bags.  The store is PostgreSQL at its        *)
(* default isolation level, READ COMMITTED: every statement reads the      *)
(* rows committed when it starts plus the rows its own transaction wrote;  *)
(* NOW() is the start time of the transaction.                             *)
(*                                                                         *)
(* Two further programs of the repository share the module:                *)
(*   - src/location.py  the tracker window: the Start and Stop buttons     *)
(*                      and the worker threads running track_location      *)
(*   - src/trade.py     main: start a browser, click 'Start trading'       *)
(***************************************************************************)
EXTENDS Integers, Sequences, FiniteSets, Bags, TLC

\* ------------------------------------------------------------ bounds
MaxLabels == 2
MaxIds == 2
MaxCalls == 2
MaxSessions == 2
MaxWorkers == 2
MaxButtonClicks == 4

\* for i in range(10)
TradeAttempts == 10

Sessions == 1..MaxSessions
Callers == {"web", "batch"}
Workers == 1..MaxWorkers

\* ------------------------------------------------------------ text
Sp == " "
Whitespace == {Sp}
Digits == {"0", "1", "2", "3", "4", "5", "6", "7", "8", "9"}

RECURSIVE LStrip(_)
LStrip(s) ==
    IF s # <<>> /\ Head(s) \in Whitespace THEN LStrip(Tail(s)) ELSE s

RECURSIVE RStrip(_)
RStrip(s) ==
    IF s # <<>> /\ s[Len(s)] \in Whitespace
    THEN RStrip(SubSeq(s, 1, Len(s) - 1))
    ELSE s

\* str.strip()
Strip(s) == RStrip(LStrip(s))

DigitVal(c) ==
    CASE c = "0" -> 0 [] c = "1" -> 1 [] c = "2" -> 2 [] c = "3" -> 3
      [] c = "4" -> 4 [] c = "5" -> 5 [] c = "6" -> 6 [] c = "7" -> 7
      [] c = "8" -> 8 [] c = "9" -> 9

RECURSIVE DigitsVal(_)
DigitsVal(s) ==
    IF s = <<>> THEN 0
    ELSE 10 * DigitsVal(SubSeq(s, 1, Len(s) - 1)) + DigitVal(s[Len(s)])

\* int(x) succeeds: after stripping, a non-empty run of decimal digits
IsInt(raw) ==
    LET s == Strip(raw)
    IN  s # <<>> /\ \A i \in 1..Len(s) : s[i] \in Digits

\* int(x) when it succeeds
ToInt(raw) == DigitsVal(Strip(raw))

\* ------------------------------------------------------------ inputs
RawLabels == { <<>>, <<Sp>>, <<"a">>, <<Sp, "a", Sp>>, <<"A">> }
RawIds == { <<"1">>, <<"2">>, <<"x">> }

SeqsUpTo(S, n) == UNION { [1..k -> S] : k \in 0..n }

Requests ==
    [ labels : SeqsUpTo(RawLabels, MaxLabels), ids : SeqsUpTo(RawIds, MaxIds) ]

\* inputs that need no cleaning: trimmed labels, integer ids
PlainLabels == { <<"a">>, <<"A">> }
PlainIds == { <<"1">>, <<"2">> }

PlainRequests ==
    [ labels : SeqsUpTo(PlainLabels, MaxLabels), ids : SeqsUpTo(PlainIds, MaxIds) ]

\* inputs of overlapping calls: candidate sets that coincide, overlap in one
\* pair, or are disjoint
ConcRequests ==
    [ labels : { << <<"a">> >>, << <<"a">>, <<"A">> >> }, ids : { << <<"1">> >>, << <<"2">> >> } ]


\* ------------------------------------------------------------ bags
RECURSIVE SumCopies(_, _)
SumCopies(S, B) ==
    IF S = {} THEN 0
    ELSE LET x == CHOOSE y \in S : TRUE
         IN  B[x] + SumCopies(S \ {x}, B)

\* the rows of B that satisfy P, with their multiplicity
BagFilter(P(_), B) == [ x \in { y \in BagToSet(B) : P(y) } |-> B[x] ]

\* every row x of B replaced by F(x), multiplicities added up
BagImage(F(_), B) ==
    LET S == BagToSet(B)
    IN  [ y \in { F(x) : x \in S } |-> SumCopies({ x \in S : F(x) = y }, B) ]

\* ------------------------------------------------------------ candidate builder
Candidate(label, id) == [ name |-> label, asset_id |-> id, delete_status_id |-> 0 ]

\* [str(r).strip() for r in reason_names if str(r).strip()], as a set
CleanLabels(labels) == { Strip(labels[i]) : i \in DOMAIN labels } \ { <<>> }

\* the nested loops over reason_names and asset_ids: one record per label and
\* per ENTRY of the id list
WebRecords(labelSet, ids) ==
    [ r \in { Candidate(l, ToInt(ids[i])) : l \in labelSet, i \in DOMAIN ids } |->
        Cardinality({ i \in DOMAIN ids : ToInt(ids[i]) = r.asset_id }) ]

\* process_upload up to the try block: validation, cleaning, expansion
WebBuild(r) ==
    IF r.labels = <<>> THEN
        { [ status |-> "validation_error", recs |-> EmptyBag, stmts |-> 0 ] }
    ELSE IF r.ids = <<>> THEN
        { [ status |-> "validation_error", recs |-> EmptyBag, stmts |-> 0 ] }
    ELSE IF \E i \in DOMAIN r.ids : ~IsInt(r.ids[i]) THEN
        \* int(a) raises ValueError outside the try block: no JSON answer, the
        \* framework's bare 500
        { [ status |-> "unhandled", recs |-> EmptyBag, stmts |-> 0 ] }
    ELSE IF CleanLabels(r.labels) = {} THEN
        { [ status |-> "validation_error", recs |-> EmptyBag, stmts |-> 0 ] }
    ELSE
        { [ status |-> "built", recs |-> WebRecords(CleanLabels(r.labels), r.ids),
            stmts |-> 0 ] }

\* a cell of the sheet without a value: read_excel gives the float NaN
NaNCell == << "NaN" >>

\* astype(str) on a cell: the text of a text cell, "nan" for a cell without value
AsStr(cell) == IF cell = NaNCell THEN << "n", "a", "n" >> ELSE cell

\* load_excel: the cells of the reason column as text, stripped, the empty
\* ones dropped (a list: nothing is deduplicated here)
LoadExcel(cells) ==
    SelectSeq([ i \in DOMAIN cells |-> Strip(AsStr(cells[i])) ], LAMBDA x : x # <<>>)

\* expand_per_asset: the cross product of the rows and ASSET_IDS, then
\* drop_duplicates(subset=["name", "asset_id"])
ExpandPerAsset(df, assetIds) ==
    SetToBag({ Candidate(df[i], assetIds[j]) : i \in DOMAIN df, j \in DOMAIN assetIds })

\* ASSET_IDS = [int(x.strip()) for x in ASSET_IDS.split(",")]
ParseAssetIds(ids) == [ j \in DOMAIN ids |-> ToInt(ids[j]) ]

\* the importer up to upsert_data: ASSET_IDS is parsed at import, then the
\* engine is created and probed with SELECT 1, then load_excel and
\* expand_per_asset run.  With no label left, expand_per_asset builds a frame
\* without columns: drop_duplicates either raises KeyError or returns it
\* unchanged, depending on the pandas release.
BatchBuild(r) ==
    IF r.ids = <<>> THEN
        \* raise ValueError("ASSET_IDS is required in .env")
        { [ status |-> "validation_error", recs |-> EmptyBag, stmts |-> 0 ] }
    ELSE IF \E i \in DOMAIN r.ids : ~IsInt(r.ids[i]) THEN
        \* int() raises ValueError at import, as the checks before it do
        { [ status |-> "validation_error", recs |-> EmptyBag, stmts |-> 0 ] }
    ELSE IF LoadExcel(r.labels) = <<>> THEN
        { [ status |-> "unhandled", recs |-> EmptyBag, stmts |-> 1 ],
          [ status |-> "built", recs |-> EmptyBag, stmts |-> 1 ] }
    ELSE
        { [ status |-> "built",
            recs |-> ExpandPerAsset(LoadExcel(r.labels), ParseAssetIds(r.ids)),
            stmts |-> 1 ] }

Build(c, r) == IF c = "web" THEN WebBuild(r) ELSE BatchBuild(r)

\* what the callers make of the requests of R
Builds(R) ==
    UNION { { [ caller |-> c, built |-> b ] : b \in Build(c, r) } : c \in Callers, r \in R }

\* the reason column of a sheet: cells with a text, cells without a value
Cells == RawLabels \cup { NaNCell }
SheetRequests == [ labels : SeqsUpTo(Cells, MaxLabels), ids : SeqsUpTo(RawIds, MaxIds) ]

PlainBuilds == Builds(PlainRequests)
ConcBuilds == Builds(ConcRequests)

\* ------------------------------------------------------------ state
VARIABLES
    tbl,        \* tbl_downtime_reason: the committed rows (a bag)
    clock,      \* the store's clock
    ncalls,     \* calls submitted so far
    pc,         \* per session: where its call stands
    caller,     \* per session: "web" or "batch"
    req,        \* per session: the caller's input
    records,    \* per session: the expanded records
    hasTemp,    \* per session: temp_downtime_reason exists
    temp,       \* per session: rows of temp_downtime_reason
    ins,        \* per session: rows its transaction inserted, uncommitted
    old,        \* per session: committed rows its transaction updated (row locks)
    new,        \* per session: the new versions of those rows, uncommitted
    txnow,      \* per session: NOW() of its transaction
    inserted,   \* per session: result_insert.rowcount
    updated,    \* per session: result_update.rowcount
    outcome,    \* per session: what the caller got back
    stmts,      \* per session: storage statements its process attempted for the call
    before,     \* per session: tbl when the call was submitted
    snap,       \* per session: the committed rows its insert phase read
    failedAt,   \* per session: pc at which a statement of the call failed
    answers,    \* per session: answers its call gave its caller (a response, a raise)
    overlapped, \* per session: another transaction was open during the call's
    last,       \* the call that ended most recently, when it committed
    prev        \* per session: the value of last when its call was submitted

\* src/location.py, LocationTrackerApp: the window's two buttons and the
\* worker threads that run track_location
VARIABLES
    tracking,   \* self.tracking
    driverRef,  \* self.driver: 0 for None, else the driver, named by the worker that created it
    wpc,        \* per worker thread: where it stands in track_location
    dstate,     \* per driver: "none" (not created), "open", "quit"
    used,       \* per worker: the drivers it has called a method of
    ui,         \* the main thread: "idle", or "quitting" inside stop_tracking
    nclicks,    \* clicks on Start Tracking and Stop Tracking so far
    lastClick   \* the button clicked last: "none", "start", "stop"

\* src/trade.py, main
VARIABLES
    tpc,        \* where main stands
    browser,    \* the driver main holds: "none", "chrome", "edge"
    attempt,    \* i of the for loop over range(10)
    matched,    \* 'start matching' was clicked
    tclicks,    \* clicks on 'Start trading' so far
    misses,     \* attempts at 'Start trading' that found no clickable button
    quits,      \* calls of driver.quit() so far
    tresult     \* "running", "returned", "raised"

reconcileVars == << tbl, clock, ncalls, pc, caller, req, records, hasTemp, temp, ins, old,
                    new, txnow, inserted, updated, outcome, stmts, before, snap, failedAt,
                    answers, overlapped, last, prev >>

trackerVars == << tracking, driverRef, wpc, dstate, used, ui, nclicks, lastClick >>

tradeVars == << tpc, browser, attempt, matched, tclicks, misses, quits, tresult >>

vars == << tbl, clock, ncalls, pc, caller, req, records, hasTemp, temp, ins, old, new,
           txnow, inserted, updated, outcome, stmts, before, snap, failedAt, answers,
           overlapped, last, prev, trackerVars, tradeVars >>

Row(n, a, d, c, u) ==
    [ name |-> n, asset_id |-> a, delete_status_id |-> d, created_at |-> c, updated_at |-> u ]

\* association tables a first call may find: empty, or two pairs of which one
\* is soft-deleted
InitTables ==
    { EmptyBag,
      SetToBag({ Row(<<"a">>, 1, 1, 0, 0), Row(<<"A">>, 2, 0, 0, 0) }) }

NoReq == [ labels |-> <<>>, ids |-> <<>> ]
NoCall == [ ok |-> FALSE, caller |-> "web", recs |-> EmptyBag, sess |-> 0,
            tbl0 |-> EmptyBag, ins |-> 0 ]
CallOf(s) == [ ok |-> TRUE, caller |-> caller[s], recs |-> records[s], sess |-> s,
               tbl0 |-> before[s], ins |-> inserted[s] ]

\* LocationTrackerApp.__init__
TrackerInit ==
    /\ tracking = FALSE
    /\ driverRef = 0
    /\ wpc = [ w \in Workers |-> "none" ]
    /\ dstate = [ w \in Workers |-> "none" ]
    /\ used = [ w \in Workers |-> {} ]
    /\ ui = "idle"
    /\ nclicks = 0
    /\ lastClick = "none"

\* trade.py main is entered
TradeInit ==
    /\ tpc = "chrome"
    /\ browser = "none"
    /\ attempt = 0
    /\ matched = FALSE
    /\ tclicks = 0
    /\ misses = 0
    /\ quits = 0
    /\ tresult = "running"

Init ==
    /\ TrackerInit
    /\ TradeInit
    /\ tbl \in InitTables
    /\ clock = 0
    /\ ncalls = 0
    /\ pc = [ s \in Sessions |-> "idle" ]
    /\ caller = [ s \in Sessions |-> "web" ]
    /\ req = [ s \in Sessions |-> NoReq ]
    /\ records = [ s \in Sessions |-> EmptyBag ]
    /\ hasTemp = [ s \in Sessions |-> FALSE ]
    /\ temp = [ s \in Sessions |-> EmptyBag ]
    /\ ins = [ s \in Sessions |-> EmptyBag ]
    /\ old = [ s \in Sessions |-> EmptyBag ]
    /\ new = [ s \in Sessions |-> EmptyBag ]
    /\ txnow = [ s \in Sessions |-> 0 ]
    /\ inserted = [ s \in Sessions |-> 0 ]
    /\ updated = [ s \in Sessions |-> 0 ]
    /\ outcome = [ s \in Sessions |-> "none" ]
    /\ stmts = [ s \in Sessions |-> 0 ]
    /\ before = [ s \in Sessions |-> tbl ]
    /\ snap = [ s \in Sessions |-> EmptyBag ]
    /\ failedAt = [ s \in Sessions |-> "none" ]
    /\ answers = [ s \in Sessions |-> 0 ]
    /\ overlapped = [ s \in Sessions |-> FALSE ]
    /\ last = NoCall
    /\ prev = [ s \in Sessions |-> NoCall ]

\* ------------------------------------------------------------ SQL
\* a join on the name alone
SameName(m, t) == m.name = t.name

\* m.name = t.name AND m.asset_id = t.asset_id
SameKey(m, t) == m.name = t.name /\ m.asset_id = t.asset_id

\* EXISTS (SELECT 1 FROM T m WHERE m.name = t.name AND m.asset_id = t.asset_id)
KeyExists(T, t) == \E m \in BagToSet(T) : SameKey(m, t)

\* what a statement of session s reads in tbl_downtime_reason: the committed
\* rows, with the rows its own transaction wrote
Visible(s) == ((tbl (-) old[s]) (+) new[s]) (+) ins[s]

\* the temp tables of the sessions of S taken as one table
RECURSIVE AllStaged(_)
AllStaged(S) ==
    IF S = {} THEN EmptyBag
    ELSE LET o == CHOOSE x \in S : TRUE
         IN  temp[o] (+) AllStaged(S \ {o})

\* a staging table that all sessions shared
StagedShared(s) == AllStaged(Sessions)

\* FROM temp_downtime_reason t: a temp table belongs to the session that
\* created it, so the name resolves to the rows this call staged
Staged(s) == temp[s]

\* the uncommitted inserts of the sessions of S
RECURSIVE PendingInserts(_)
PendingInserts(S) ==
    IF S = {} THEN EmptyBag
    ELSE LET o == CHOOSE x \in S : TRUE
         IN  ins[o] (+) PendingInserts(S \ {o})

\* a NOT EXISTS that also saw the rows other transactions have not committed
ExistenceViewDirty(s) == Visible(s) (+) PendingInserts(Sessions \ {s})

\* an insert phase without its NOT EXISTS
ExistenceViewBlind(s) == EmptyBag

\* the rows the insert phase reads for its NOT EXISTS
ExistenceView(s) == Visible(s)

\* an insert phase that inserts every staged row
InsertRowsAll(s) ==
    BagImage(LAMBDA t : Row(t.name, t.asset_id, t.delete_status_id, txnow[s], txnow[s]),
             Staged(s))

\* INSERT INTO tbl_downtime_reason ... SELECT ... FROM temp t WHERE NOT EXISTS:
\* one new row per temp row whose pair the statement's snapshot does not hold
\* (the statement does not see the rows it inserts itself)
InsertRows(s) ==
    LET absent == BagFilter(LAMBDA t : ~KeyExists(ExistenceView(s), t), Staged(s))
    IN  BagImage(LAMBDA t : Row(t.name, t.asset_id, t.delete_status_id, txnow[s], txnow[s]),
                 absent)

\* an UPDATE that sets updated_at only
UpdateRowKeepsStatus(s, m) == [ m EXCEPT !.updated_at = txnow[s] ]

\* an UPDATE that also stamps created_at
UpdateRowStampsCreated(s, m) ==
    [ m EXCEPT !.delete_status_id = 0, !.created_at = txnow[s], !.updated_at = txnow[s] ]

\* an UPDATE that sets delete_status_id only
UpdateRowKeepsTime(s, m) == [ m EXCEPT !.delete_status_id = 0 ]

\* SET delete_status_id = t.delete_status_id, updated_at = NOW().  Every temp
\* row carries delete_status_id 0, so the temp rows matching m agree.
UpdateRow(s, m) ==
    LET t == CHOOSE x \in BagToSet(Staged(s)) : SameKey(m, x)
    IN  [ m EXCEPT !.delete_status_id = t.delete_status_id, !.updated_at = txnow[s] ]

\* UPDATE ... FROM temp t WHERE m.name = t.name AND m.asset_id = t.asset_id:
\* the rows of T the statement updates
Matched(s, T) == BagFilter(LAMBDA m : KeyExists(Staged(s), m), T)
Unmatched(s, T) == BagFilter(LAMBDA m : ~KeyExists(Staged(s), m), T)
UpdateAll(s, T) == BagImage(LAMBDA m : UpdateRow(s, m), Matched(s, T)) (+) Unmatched(s, T)

\* result_update.rowcount: the rows of tbl_downtime_reason the UPDATE changed
UpdateCount(s) == BagCardinality(Matched(s, Visible(s)))

\* the UPDATE waits while another transaction holds a lock on a row it matches
Blocked(s) ==
    \E o \in Sessions \ {s} : \E m \in BagToSet(old[o]) : KeyExists(Staged(s), m)

\* a temp table created without ON COMMIT DROP: it lives as long as the session
TempOutlivesCommit(s) == hasTemp[s]

\* temp_downtime_reason after COMMIT: ON COMMIT DROP
TempAfterCommit(s) == FALSE

\* temp_downtime_reason after ROLLBACK: its CREATE is undone with the rest
TempAfterRollback(s) == FALSE

\* a commit that left only the rows the transaction wrote
CommittedReplaces(s) == new[s] (+) ins[s]

\* a commit that published the inserted rows without the updated ones
CommittedInsertsOnly(s) == tbl (+) ins[s]

\* the table when the transaction of s commits
Committed(s) == ((tbl (-) old[s]) (+) new[s]) (+) ins[s]

\* a rollback that left the inserted rows behind
RolledBackKeepsInserts(s) == tbl (+) ins[s]

\* the table when the transaction of s rolls back
RolledBack(s) == tbl

\* ------------------------------------------------------------ actions
\* an except clause that answered as if the call had succeeded
ErrorSwallowed(s) == "ok"

\* except Exception: the error response (web), raise e (importer)
ErrorOutcome(s) == IF caller[s] = "web" THEN "db_error" ELSE "raised"

\* A caller hands in its input: process_upload runs up to its try block, the
\* importer up to upsert_data.  A validation failure or an uncaught exception
\* ends the call here.
Submit(s, c, r, b, keep) ==
    /\ pc[s] \in {"idle", "done"}
    /\ ncalls' = ncalls + 1
    /\ caller' = [caller EXCEPT ![s] = c]
    /\ req' = [req EXCEPT ![s] = IF keep THEN r ELSE NoReq]
    /\ records' = [records EXCEPT ![s] = b.recs]
    /\ stmts' = [stmts EXCEPT ![s] = b.stmts]
    /\ pc' = [pc EXCEPT ![s] = IF b.status = "built" THEN "built" ELSE "done"]
    /\ outcome' = [outcome EXCEPT ![s] = IF b.status = "built" THEN "pending" ELSE b.status]
    /\ inserted' = [inserted EXCEPT ![s] = 0]
    /\ updated' = [updated EXCEPT ![s] = 0]
    /\ before' = [before EXCEPT ![s] = tbl]
    /\ snap' = [snap EXCEPT ![s] = EmptyBag]
    /\ failedAt' = [failedAt EXCEPT ![s] = "none"]
    /\ answers' = [answers EXCEPT ![s] = IF b.status = "built" THEN 0 ELSE 1]
    /\ overlapped' = [overlapped EXCEPT ![s] = FALSE]
    /\ prev' = [prev EXCEPT ![s] = last]
    /\ last' = IF b.status = "built" THEN last ELSE NoCall
    /\ UNCHANGED << trackerVars, tradeVars >>
    /\ UNCHANGED << tbl, clock, hasTemp, temp, ins, old, new, txnow >>

\* the call of s is inside its with engine.begin() block
InTx(s) == pc[s] \in {"tx", "temp", "staged", "inserted", "updated"}

\* with engine.begin() as conn: the transaction starts, at an instant later
\* than the start of every earlier transaction
BeginTx(s) ==
    /\ pc[s] = "built"
    /\ clock' = clock + 1
    /\ txnow' = [txnow EXCEPT ![s] = clock + 1]
    /\ pc' = [pc EXCEPT ![s] = "tx"]
    /\ overlapped' = [ o \in Sessions |->
                         IF \E x \in Sessions \ {s} : InTx(x)
                         THEN overlapped[o] \/ o = s \/ InTx(o)
                         ELSE overlapped[o] ]
    /\ UNCHANGED << trackerVars, tradeVars >>
    /\ UNCHANGED << tbl, ncalls, caller, req, records, hasTemp, temp, ins, old, new,
                    inserted, updated, outcome, stmts, before, snap, failedAt, answers,
                    last, prev >>

\* CREATE TEMP TABLE temp_downtime_reason (...) ON COMMIT DROP
CreateTemp(s) ==
    /\ pc[s] = "tx"
    /\ ~hasTemp[s]
    /\ hasTemp' = [hasTemp EXCEPT ![s] = TRUE]
    /\ temp' = [temp EXCEPT ![s] = EmptyBag]
    /\ stmts' = [stmts EXCEPT ![s] = @ + 1]
    /\ pc' = [pc EXCEPT ![s] = "temp"]
    /\ UNCHANGED << trackerVars, tradeVars >>
    /\ UNCHANGED << tbl, clock, ncalls, caller, req, records, ins, old, new, txnow,
                    inserted, updated, outcome, before, snap, failedAt, answers, overlapped,
                    last, prev >>

\* INSERT INTO temp_downtime_reason ... VALUES ..., records (executemany); with
\* no record the statement has no parameters to bind and fails
Stage(s) ==
    /\ pc[s] = "temp"
    /\ records[s] # EmptyBag
    /\ temp' = [temp EXCEPT ![s] = @ (+) records[s]]
    /\ stmts' = [stmts EXCEPT ![s] = @ + 1]
    /\ pc' = [pc EXCEPT ![s] = "staged"]
    /\ UNCHANGED << trackerVars, tradeVars >>
    /\ UNCHANGED << tbl, clock, ncalls, caller, req, records, hasTemp, ins, old, new, txnow,
                    inserted, updated, outcome, before, snap, failedAt, answers, overlapped,
                    last, prev >>

\* insert new records (that don't exist in main table)
InsertPhase(s) ==
    /\ pc[s] = "staged"
    /\ ins' = [ins EXCEPT ![s] = @ (+) InsertRows(s)]
    /\ inserted' = [inserted EXCEPT ![s] = BagCardinality(InsertRows(s))]
    /\ snap' = [snap EXCEPT ![s] = tbl]
    /\ stmts' = [stmts EXCEPT ![s] = @ + 1]
    /\ pc' = [pc EXCEPT ![s] = "inserted"]
    /\ UNCHANGED << trackerVars, tradeVars >>
    /\ UNCHANGED << tbl, clock, ncalls, caller, req, records, hasTemp, temp, old, new, txnow,
                    updated, outcome, before, failedAt, answers, overlapped, last, prev >>

\* update existing records
UpdatePhase(s) ==
    /\ pc[s] = "inserted"
    /\ ~Blocked(s)
    /\ old' = [old EXCEPT ![s] = @ (+) Matched(s, tbl (-) old[s])]
    /\ new' = [new EXCEPT ![s] = UpdateAll(s, @) (+)
                                 BagImage(LAMBDA m : UpdateRow(s, m), Matched(s, tbl (-) old[s]))]
    /\ ins' = [ins EXCEPT ![s] = UpdateAll(s, @)]
    /\ updated' = [updated EXCEPT ![s] = UpdateCount(s)]
    /\ stmts' = [stmts EXCEPT ![s] = @ + 1]
    /\ pc' = [pc EXCEPT ![s] = "updated"]
    /\ UNCHANGED << trackerVars, tradeVars >>
    /\ UNCHANGED << tbl, clock, ncalls, caller, req, records, hasTemp, temp, txnow,
                    inserted, outcome, before, snap, failedAt, answers, overlapped,
                    last, prev >>

\* the with block ends: COMMIT (the temp table is dropped), then the response
Commit(s) ==
    /\ pc[s] = "updated"
    /\ tbl' = Committed(s)
    /\ ins' = [ins EXCEPT ![s] = EmptyBag]
    /\ old' = [old EXCEPT ![s] = EmptyBag]
    /\ new' = [new EXCEPT ![s] = EmptyBag]
    /\ hasTemp' = [hasTemp EXCEPT ![s] = TempAfterCommit(s)]
    /\ temp' = [temp EXCEPT ![s] = IF TempAfterCommit(s) THEN @ ELSE EmptyBag]
    /\ outcome' = [outcome EXCEPT ![s] = "ok"]
    /\ pc' = [pc EXCEPT ![s] = "done"]
    /\ last' = CallOf(s)
    /\ answers' = [answers EXCEPT ![s] = @ + 1]
    /\ UNCHANGED << trackerVars, tradeVars >>
    /\ UNCHANGED << clock, ncalls, caller, req, records, txnow, inserted, updated, stmts,
                    before, snap, failedAt, overlapped, prev >>

\* a failure handler that rolls back and runs the statements again
FailAndRetry(s) ==
    /\ pc[s] \in {"tx", "temp", "staged", "inserted", "updated"}
    /\ tbl' = tbl
    /\ ins' = [ins EXCEPT ![s] = EmptyBag]
    /\ old' = [old EXCEPT ![s] = EmptyBag]
    /\ new' = [new EXCEPT ![s] = EmptyBag]
    /\ hasTemp' = [hasTemp EXCEPT ![s] = FALSE]
    /\ temp' = [temp EXCEPT ![s] = EmptyBag]
    /\ stmts' = [stmts EXCEPT ![s] = IF caller[s] = "batch" THEN 1 ELSE 0]
    /\ inserted' = [inserted EXCEPT ![s] = 0]
    /\ updated' = [updated EXCEPT ![s] = 0]
    /\ snap' = [snap EXCEPT ![s] = EmptyBag]
    /\ pc' = [pc EXCEPT ![s] = "tx"]
    /\ UNCHANGED << trackerVars, tradeVars >>
    /\ UNCHANGED << clock, ncalls, caller, req, records, txnow, outcome, before, failedAt,
                    answers, overlapped, last, prev >>

\* the next storage call of the transaction raises (the connection, a
\* statement or the commit fails): the with block rolls back, the except
\* clause answers (web) or re-raises (importer)
Fail(s) ==
    /\ pc[s] \in {"built", "tx", "temp", "staged", "inserted", "updated"}
    /\ tbl' = RolledBack(s)
    /\ ins' = [ins EXCEPT ![s] = EmptyBag]
    /\ old' = [old EXCEPT ![s] = EmptyBag]
    /\ new' = [new EXCEPT ![s] = EmptyBag]
    /\ hasTemp' = [hasTemp EXCEPT ![s] = TempAfterRollback(s)]
    /\ temp' = [temp EXCEPT ![s] = IF TempAfterRollback(s) THEN @ ELSE EmptyBag]
    /\ stmts' = [stmts EXCEPT ![s] = IF pc[s] \in {"built", "updated"} THEN @ ELSE @ + 1]
    /\ outcome' = [outcome EXCEPT ![s] = ErrorOutcome(s)]
    /\ failedAt' = [failedAt EXCEPT ![s] = pc[s]]
    /\ pc' = [pc EXCEPT ![s] = "done"]
    /\ last' = NoCall
    /\ answers' = [answers EXCEPT ![s] = @ + 1]
    /\ UNCHANGED << trackerVars, tradeVars >>
    /\ UNCHANGED << clock, ncalls, caller, req, records, txnow, inserted, updated,
                    before, snap, overlapped, prev >>

TxStep(s) ==
    \/ BeginTx(s)
    \/ CreateTemp(s)
    \/ Stage(s)
    \/ InsertPhase(s)
    \/ UpdatePhase(s)
    \/ Commit(s)
    \/ Fail(s)

\* the pool hands the connection of the call that just ended to the next call
FirstSession == CHOOSE s \in Sessions : \A o \in Sessions : s <= o

\* calls one after the other on the pooled connection
SubmitAlone ==
    /\ ncalls < MaxCalls
    /\ pc[FirstSession] \in {"idle", "done"}
    /\ \E x \in PlainBuilds : Submit(FirstSession, x.caller, NoReq, x.built, FALSE)

\* calls overlap, each on a connection of its own
SubmitAny ==
    \E s \in Sessions :
        /\ pc[s] = "idle"
        /\ \E x \in ConcBuilds : Submit(s, x.caller, NoReq, x.built, FALSE)

\* one call, its input kept beside what the call makes of it
SubmitOnce ==
    /\ ncalls = 0
    /\ \E c \in Callers, r \in Requests :
        \E b \in Build(c, r) : Submit(FirstSession, c, r, b, TRUE)

\* one run of the importer on a sheet, its input kept
SubmitSheet ==
    /\ ncalls = 0
    /\ \E r \in SheetRequests :
        \E b \in BatchBuild(r) : Submit(FirstSession, "batch", r, b, TRUE)

Step == \E s \in Sessions : TxStep(s)

Next == SubmitAlone \/ Step

Spec == Init /\ [][Next]_vars

ConcNext == SubmitAny \/ Step

ConcSpec == Init /\ [][ConcNext]_vars

CallNext == SubmitOnce \/ Step

CallSpec == Init /\ [][CallNext]_vars

SheetNext == SubmitSheet \/ Step

SheetSpec == Init /\ [][SheetNext]_vars

\* overlapping calls in which every storage call returns or raises: a call
\* that can take a step of its transaction takes one
LiveSpec == ConcSpec /\ \A s \in Sessions : WF_vars(TxStep(s))

\* ------------------------------------------------------------ vocabulary of the claims
KeyOf(m) == << m.name, m.asset_id >>
KeysOf(B) == { KeyOf(m) : m \in BagToSet(B) }

\* the rows of the bag B that carry the pair k
RowsFor(B, k) == BagCardinality(BagFilter(LAMBDA m : KeyOf(m) = k, B))

\* at most one row per (name, asset_id)
Unique(B) == \A k \in KeysOf(B) : RowsFor(B, k) = 1

\* the candidate set of the call of s, and the length of its records list
CandidateKeys(s) == KeysOf(records[s])
TotalProcessed(s) == BagCardinality(records[s])

Succeeded(s) == pc[s] = "done" /\ outcome[s] = "ok"
StorageFailed(s) == pc[s] = "done" /\ outcome[s] \in {"db_error", "raised"}

\* C1: a successful call returns inserted + updated = |candidates| (read as the
\* number of distinct pairs or as the number of records)
C1_CountsAddUp ==
    \A s \in Sessions :
        Succeeded(s) =>
            \/ inserted[s] + updated[s] = Cardinality(CandidateKeys(s))
            \/ inserted[s] + updated[s] = TotalProcessed(s)

\* C2: when no candidate pair is in the table before the call, a successful
\* call returns inserted = |candidates| and updated = 0
C2_FreshPairsOnlyInserted ==
    \A s \in Sessions :
        (Succeeded(s) /\ CandidateKeys(s) \cap KeysOf(before[s]) = {}) =>
            /\ inserted[s] = TotalProcessed(s)
            /\ updated[s] = 0

\* C3: the second of two successive calls with the same input returns
\* inserted = 0 and updated = |candidates| (distinct pairs, or records)
C3_SecondCallCounts ==
    \A s \in Sessions :
        (Succeeded(s) /\ prev[s].ok /\ prev[s].caller = caller[s]
                      /\ prev[s].recs = records[s]) =>
            /\ inserted[s] = 0
            /\ \/ updated[s] = Cardinality(CandidateKeys(s))
               \/ updated[s] = TotalProcessed(s)

\* C4: a call that ends with a storage failure leaves the table as it was
\* before the call, whichever step failed
C4_Atomicity ==
    \A s \in Sessions : StorageFailed(s) => tbl = before[s]

\* the update phase fails after the insert phase inserted rows
C4_Witness ==
    \E s \in Sessions :
        /\ StorageFailed(s)
        /\ failedAt[s] = "inserted"
        /\ inserted[s] > 0
        /\ tbl = before[s]

\* C5: calls that run one after the other keep at most one row per pair
C5_Uniqueness == Unique(tbl)

\* C6: two calls that both committed, each having read for its insert phase a
\* table without a pair that both stage, leave two rows or more for that pair
C6_RaceDuplicates ==
    \A s1, s2 \in Sessions :
        (s1 # s2 /\ Succeeded(s1) /\ Succeeded(s2)) =>
            \A k \in CandidateKeys(s1) \cap CandidateKeys(s2) :
                (k \notin KeysOf(snap[s1]) /\ k \notin KeysOf(snap[s2])) =>
                    RowsFor(tbl, k) >= 2

\* both calls committed and the shared pair, absent before, has two rows
C6_Witness ==
    \E s1, s2 \in Sessions :
        /\ s1 # s2 /\ Succeeded(s1) /\ Succeeded(s2)
        /\ \E k \in CandidateKeys(s1) \cap CandidateKeys(s2) :
            /\ k \notin KeysOf(snap[s1]) /\ k \notin KeysOf(snap[s2])
            /\ k \notin KeysOf(before[s1]) /\ k \notin KeysOf(before[s2])
            /\ RowsFor(tbl, k) = 2

\* the call of s has run its validation
Answered(s) == pc[s] # "idle"

NoUsableLabel(r) == \A i \in DOMAIN r.labels : Strip(r.labels[i]) = <<>>

\* C7: the web handler answers an empty label list, labels that are all blank
\* or an empty id list with a validation error, and touches no storage
C7_WebValidationBoundary ==
    \A s \in Sessions :
        (Answered(s) /\ caller[s] = "web" /\ (NoUsableLabel(req[s]) \/ req[s].ids = <<>>)) =>
            /\ outcome[s] = "validation_error"
            /\ stmts[s] = 0
            /\ tbl = before[s]

\* C8: an id that is no integer ends the call with a validation error reported
\* like the others, before any storage access
C8_NonIntegerIdReported ==
    \A s \in Sessions :
        (Answered(s) /\ \E i \in DOMAIN req[s].ids : ~IsInt(req[s].ids[i])) =>
            /\ outcome[s] = "validation_error"
            /\ stmts[s] = 0

Built(s) == Answered(s) /\ outcome[s] \notin {"validation_error", "unhandled"}

DistinctLabels(r) == { Strip(r.labels[i]) : i \in DOMAIN r.labels } \ { <<>> }
DistinctIds(r) == { ToInt(r.ids[i]) : i \in DOMAIN r.ids }

\* C9: the records staged (and total_processed) number
\* |distinct trimmed non-empty labels| x |distinct target ids|
C9_Cardinality ==
    \A s \in Sessions :
        Built(s) =>
            /\ TotalProcessed(s) =
                   Cardinality(DistinctLabels(req[s])) * Cardinality(DistinctIds(req[s]))
            /\ pc[s] \in {"staged", "inserted", "updated"} => temp[s] = records[s]

\* C10: the labels of the candidates are the trimmed non-empty input labels,
\* each once per target
C10_LabelNormalisation ==
    \A s \in Sessions :
        Built(s) =>
            /\ { m.name : m \in BagToSet(records[s]) } = DistinctLabels(req[s])
            /\ \A m \in BagToSet(records[s]) : CopiesIn(m, records[s]) = 1

\* C11: a successful call returns as inserted the number of candidate pairs
\* that had no row before the call, and leaves the keys of the table before
\* the call together with the candidate pairs as the keys of the table
C11_InsertPhaseResult ==
    \A s \in Sessions :
        Succeeded(s) =>
            /\ inserted[s] = Cardinality(CandidateKeys(s) \ KeysOf(before[s]))
            /\ KeysOf(tbl) = KeysOf(before[s]) \cup CandidateKeys(s)

\* the rows of B whose pair is a candidate of the call of s
CandidateRows(s, B) == BagFilter(LAMBDA m : KeyOf(m) \in CandidateKeys(s), B)

\* C12: after a successful call every row whose pair is a candidate has status
\* 0, whatever its status was before the call
C12_StatusActive ==
    \A s \in Sessions :
        Succeeded(s) =>
            \A m \in BagToSet(CandidateRows(s, tbl)) : m.delete_status_id = 0

\* a row with a non-zero status matched a candidate, and the call succeeded
C12_Witness ==
    \E s \in Sessions :
        /\ Succeeded(s)
        /\ \E m \in BagToSet(CandidateRows(s, before[s])) : m.delete_status_id # 0
        /\ \A m \in BagToSet(CandidateRows(s, tbl)) : m.delete_status_id = 0

\* the created_at values of the rows of B that carry the pair k
CreatedFor(B, k) ==
    BagImage(LAMBDA m : m.created_at, BagFilter(LAMBDA m : KeyOf(m) = k, B))

\* C13: a successful call leaves, for every candidate pair that had rows before
\* the call, the same rows with the same label, target and created_at
C13_UpdateFrame ==
    \A s \in Sessions :
        Succeeded(s) =>
            \A k \in CandidateKeys(s) \cap KeysOf(before[s]) :
                CreatedFor(tbl, k) = CreatedFor(before[s], k)

\* a row that existed matched a candidate: its updated_at moved, its created_at
\* did not
C13_Witness ==
    \E s \in Sessions :
        /\ Succeeded(s)
        /\ \E m \in BagToSet(CandidateRows(s, before[s])) :
            /\ m.updated_at < txnow[s]
            /\ [ m EXCEPT !.delete_status_id = 0, !.updated_at = txnow[s] ] \in BagToSet(tbl)
            /\ CreatedFor(tbl, KeyOf(m)) = CreatedFor(before[s], KeyOf(m))

\* the pairs of the rows of B, one per row
KeyBag(B) == BagImage(KeyOf, B)

\* C14: from the start of a call on, whether it is in progress, committed or
\* rolled back, the table holds a row for every row it held before the call
C14_NoDeletion ==
    \A s \in Sessions :
        Answered(s) =>
            /\ KeyBag(before[s]) \sqsubseteq KeyBag(tbl)
            /\ BagCardinality(before[s]) <= BagCardinality(tbl)

\* a call on a table with rows updated some, inserted others, and all the rows
\* of before are still there
C14_Witness ==
    \E s \in Sessions :
        /\ Succeeded(s)
        /\ before[s] # EmptyBag
        /\ updated[s] > 0
        /\ BagCardinality(before[s]) < BagCardinality(tbl)
        /\ KeyBag(before[s]) \sqsubseteq KeyBag(tbl)

\* the call of s committed and no call has ended since
JustCommitted(s) == Succeeded(s) /\ last.ok /\ last.sess = s

\* no transaction has been open while another was
NoOverlap == \A s \in Sessions : ~overlapped[s]

StampOrder == \A m \in BagToSet(tbl) : m.created_at <= m.updated_at

\* the rows matching a candidate of s carry the now() of its call, as created_at
\* too when the insert phase of s found no row for their pair
CallStamps(s) ==
    \A m \in BagToSet(CandidateRows(s, tbl)) :
        /\ m.updated_at = txnow[s]
        /\ KeyOf(m) \notin KeysOf(snap[s]) => m.created_at = txnow[s]

\* C15 as stated: when a call commits, the rows it inserted have created_at =
\* updated_at = the now() of the call and every row matching a candidate has
\* updated_at = that now(); in every state created_at <= updated_at
C15_Timestamps ==
    /\ StampOrder
    /\ \A s \in Sessions : JustCommitted(s) => CallStamps(s)

\* C15: as long as no two calls have overlapped, when a call commits the rows
\* it inserted have created_at = updated_at = the now() of the call, every row
\* matching a candidate has updated_at = that now(), and created_at <=
\* updated_at for every row
C15_TimestampsInOrder ==
    NoOverlap =>
        /\ StampOrder
        /\ \A s \in Sessions : JustCommitted(s) => CallStamps(s)

\* calls ran one after the other, and the last one inserted a row and
\* refreshed an older one
C15_Witness ==
    \E s \in Sessions :
        /\ NoOverlap
        /\ JustCommitted(s)
        /\ \E m \in BagToSet(CandidateRows(s, tbl)) :
            KeyOf(m) \notin KeysOf(snap[s]) /\ m.created_at = txnow[s]
        /\ \E m \in BagToSet(CandidateRows(s, tbl)) :
            m.created_at < m.updated_at /\ m.updated_at = txnow[s]

\* C16: outside a transaction the connection holds no staging table and no
\* staged candidate; a call that begins its transaction on it finds no staging
\* table in the way of its CREATE, and what it has staged is its own records
C16_StagingLifetime ==
    \A s \in Sessions :
        /\ ~InTx(s) => (~hasTemp[s] /\ temp[s] = EmptyBag)
        /\ pc[s] = "tx" => ~hasTemp[s]
        /\ pc[s] \in {"staged", "inserted", "updated"} => temp[s] = records[s]

\* a call follows, on the same connection, a committed call that staged other
\* records, and has staged its own
C16_Witness ==
    \E s \in Sessions :
        /\ prev[s].ok /\ prev[s].sess = s
        /\ prev[s].recs # records[s]
        /\ pc[s] = "staged"
        /\ hasTemp[s]
        /\ temp[s] = records[s]

\* the statements of the transaction, named by the pc at which each is issued
StatementSteps == {"tx", "temp", "staged", "inserted"}

\* the statements the call has issued when the one issued at pc p fails
Attempted(p) ==
    CASE p = "tx" -> 1
      [] p = "temp" -> 2
      [] p = "staged" -> 3
      [] p = "inserted" -> 4

\* the statements issued before the call builds its records
StartUp(c) == IF c = "batch" THEN 1 ELSE 0

\* C17: when a statement of the staging, the insert phase or the update phase
\* fails, the call gives its caller one answer, an error (web: the error
\* response; importer: the exception), the later statements are not issued and
\* none is issued twice
C17_FailureReporting ==
    \A s \in Sessions :
        (pc[s] = "done" /\ failedAt[s] \in StatementSteps) =>
            /\ outcome[s] = IF caller[s] = "web" THEN "db_error" ELSE "raised"
            /\ answers[s] = 1
            /\ stmts[s] = StartUp(caller[s]) + Attempted(failedAt[s])
            /\ failedAt[s] \in {"tx", "temp"} => inserted[s] = 0
            /\ failedAt[s] \in {"tx", "temp", "staged"} => updated[s] = 0

\* the update phase of a web call failed after its insert phase inserted rows
C17_Witness ==
    \E s \in Sessions :
        /\ pc[s] = "done"
        /\ failedAt[s] = "inserted"
        /\ caller[s] = "web"
        /\ inserted[s] > 0
        /\ outcome[s] = "db_error"
        /\ answers[s] = 1
        /\ stmts[s] = 4

\* the committed rows that carry the now() of the transaction of s: each
\* transaction has a now() of its own, and stamps every row it writes with it
WrittenBy(s) == BagFilter(LAMBDA m : m.updated_at = txnow[s], tbl)
CreatedBy(s) == BagFilter(LAMBDA m : m.created_at = txnow[s], tbl)

\* C18: the committed table, which is what any other party reads, holds none of
\* the rows a call wrote until that call has committed, and when it has just
\* committed it holds all of them: the rows it inserted and the rows it updated
C18_NoPartialVisibility ==
    \A s \in Sessions :
        txnow[s] > 0 =>
            /\ ~Succeeded(s) => WrittenBy(s) = EmptyBag
            /\ JustCommitted(s) =>
                /\ BagCardinality(WrittenBy(s)) = updated[s]
                /\ BagCardinality(CreatedBy(s)) = inserted[s]

\* a call that inserted rows and updated older ones has just committed while
\* the other call is inside its transaction
C18_Witness ==
    \E s, o \in Sessions :
        /\ s # o
        /\ InTx(o)
        /\ JustCommitted(s)
        /\ inserted[s] > 0
        /\ updated[s] > inserted[s]
        /\ BagCardinality(WrittenBy(s)) = updated[s]

\* the pairs of the rows the open transaction of s has inserted or updated
PendingKeys(s) == KeysOf(ins[s]) \cup KeysOf(old[s]) \cup KeysOf(new[s])

\* C19: with calls running together, the staging table of a call holds its own
\* records only, its insert and update phases write rows of its own candidate
\* pairs only, and its CREATE of the staging table finds none in the way
\* whatever the other connections hold
C19_StagingIsolation ==
    \A s \in Sessions :
        /\ temp[s] \in {EmptyBag, records[s]}
        /\ PendingKeys(s) \subseteq CandidateKeys(s)
        /\ pc[s] = "tx" => ~hasTemp[s]

\* two calls with no candidate in common both hold a staging table and have
\* both run their insert and update phases
C19_Witness ==
    \E s, o \in Sessions :
        /\ s # o
        /\ hasTemp[s] /\ hasTemp[o]
        /\ CandidateKeys(s) \cap CandidateKeys(o) = {}
        /\ pc[s] = "updated" /\ pc[o] = "updated"
        /\ ins[s] # EmptyBag
        /\ old[o] # EmptyBag

\* the call of s has built its records and has not ended
InProgress(s) == pc[s] = "built" \/ InTx(s)

\* the two ways a call that reached the storage ends
EndedCommitted(s) == pc[s] = "done" /\ outcome[s] = "ok" /\ failedAt[s] = "none"
EndedRolledBack(s) ==
    pc[s] = "done" /\ outcome[s] \in {"db_error", "raised"} /\ failedAt[s] # "none"

\* it ended one way, not both, and answered its caller once
EndedOnce(s) ==
    /\ EndedCommitted(s) # EndedRolledBack(s)
    /\ answers[s] = 1

\* C20: when every storage call returns or raises, a call in progress ends,
\* committed (counts returned) or rolled back (error reported) and never both
C20_Termination ==
    \A s \in Sessions :
        /\ InProgress(s) ~> EndedOnce(s)
        /\ [](EndedCommitted(s) => ~EndedRolledBack(s))

\* of two calls that ran together one ended committed, the other rolled back
C20_Witness ==
    \E s, o \in Sessions :
        /\ overlapped[s] /\ overlapped[o]
        /\ EndedCommitted(s) /\ EndedOnce(s)
        /\ EndedRolledBack(o) /\ EndedOnce(o)
        /\ failedAt[o] \in StatementSteps

\* ------------------------------------------------------------ one call as a function
\* The statements of a call that runs alone and commits, on the table T, with
\* the records recs staged and now as its NOW(): the insert phase, then the
\* update phase on the table the insert phase left.
UpsertInsertedRows(T, recs, now) ==
    BagImage(LAMBDA t : Row(t.name, t.asset_id, t.delete_status_id, now, now),
             BagFilter(LAMBDA t : ~KeyExists(T, t), recs))

UpsertInserted(T, recs, now) == BagCardinality(UpsertInsertedRows(T, recs, now))

UpsertMatched(T, recs, now) ==
    BagFilter(LAMBDA m : KeyExists(recs, m), T (+) UpsertInsertedRows(T, recs, now))

UpsertUpdated(T, recs, now) == BagCardinality(UpsertMatched(T, recs, now))

UpsertTable(T, recs, now) ==
    BagImage(LAMBDA m : IF KeyExists(recs, m)
                        THEN [ m EXCEPT !.delete_status_id = 0, !.updated_at = now ]
                        ELSE m,
             T (+) UpsertInsertedRows(T, recs, now))

OtherCaller(c) == IF c = "web" THEN "batch" ELSE "web"

\* C21: a call that succeeded left the table, and returned the counts, that
\* the other call site gives for the same table and the same labels and ids
C21_SameEngine ==
    \A s \in Sessions :
        Succeeded(s) =>
            \A b \in Build(OtherCaller(caller[s]), req[s]) :
                /\ b.status = "built"
                /\ tbl = UpsertTable(before[s], b.recs, txnow[s])
                /\ inserted[s] = UpsertInserted(before[s], b.recs, txnow[s])
                /\ updated[s] = UpsertUpdated(before[s], b.recs, txnow[s])

\* the trimmed, non-empty texts of the cells of r that hold a value
CellLabels(r) ==
    { Strip(r.labels[i]) : i \in { j \in DOMAIN r.labels : r.labels[j] # NaNCell } } \ { <<>> }

\* C22: the labels the importer expands are exactly the trimmed, non-empty
\* texts of the cells that hold a value; a cell without value gives no label
C22_MissingCellNoLabel ==
    \A s \in Sessions :
        (Answered(s) /\ caller[s] = "batch" /\ outcome[s] \notin {"validation_error", "unhandled"}) =>
            { m.name : m \in BagToSet(records[s]) } = CellLabels(req[s])

\* C23: when the label column yields no non-empty label, the importer ends
\* with a validation error, has begun no transaction and run no storage
\* statement, and the table is as it was
C23_BatchValidationBoundary ==
    \A s \in Sessions :
        (Answered(s) /\ caller[s] = "batch" /\ LoadExcel(req[s].labels) = <<>>) =>
            /\ outcome[s] = "validation_error"
            /\ ~InTx(s)
            /\ stmts[s] = 0
            /\ tbl = before[s]

\* the rows of B whose pair is no candidate of the call of s
OtherRows(s, B) == BagFilter(LAMBDA m : KeyOf(m) \notin CandidateKeys(s), B)

\* C24: from its start on, whether it commits or rolls back, a call leaves
\* every row whose pair is not among its candidates as it was, in all columns
C24_UnreferencedFrame ==
    \A s \in Sessions :
        Answered(s) => OtherRows(s, tbl) = OtherRows(s, before[s])

\* a call that inserted and updated rows committed on a table that also held
\* a row of another pair
C24_Witness ==
    \E s \in Sessions :
        /\ Succeeded(s)
        /\ inserted[s] > 0
        /\ updated[s] > inserted[s]
        /\ OtherRows(s, before[s]) # EmptyBag
        /\ OtherRows(s, tbl) = OtherRows(s, before[s])

\* the rows of B without their updated_at
Stable(B) ==
    BagImage(LAMBDA m : [ name |-> m.name, asset_id |-> m.asset_id,
                          delete_status_id |-> m.delete_status_id,
                          created_at |-> m.created_at ], B)

\* the call of s follows a committed call of the same caller with the same records
Repeated(s) ==
    prev[s].ok /\ prev[s].caller = caller[s] /\ prev[s].recs = records[s]

\* C25: the second of two successive calls with the same input leaves the rows
\* the first left, with the same label, target, status and created_at
C25_StateIdempotence ==
    \A s \in Sessions :
        (Succeeded(s) /\ Repeated(s)) => Stable(tbl) = Stable(before[s])

\* the first call inserted rows, the second refreshed them
C25_Witness ==
    \E s \in Sessions :
        /\ Succeeded(s) /\ Repeated(s)
        /\ prev[s].ins > 0
        /\ updated[s] > 0
        /\ tbl # before[s]
        /\ Stable(tbl) = Stable(before[s])

\* no record twice
Deduplicated(B) == \A m \in BagToSet(B) : CopiesIn(m, B) = 1

\* the (label, target, status) rows of B, as a set
StatusRows(B) == { << m.name, m.asset_id, m.delete_status_id >> : m \in BagToSet(B) }

\* the call of s is the second of two successive committed calls, with
\* deduplicated candidate sets, on a table that held one row per pair at most
SecondOfTwo(s) ==
    /\ Succeeded(s) /\ prev[s].ok
    /\ Unique(prev[s].tbl0)
    /\ Deduplicated(prev[s].recs) /\ Deduplicated(records[s])

\* C26: two successive calls with the candidate sets A and B leave rows that
\* depend on the table before them and on A union B only (status 0 for the
\* pairs of the union, the other rows as they were), and insert together as
\* many rows as pairs of the union were absent; so do the calls in either order
C26_OrderIndependence ==
    \A s \in Sessions :
        SecondOfTwo(s) =>
            LET T0 == prev[s].tbl0
                AB == KeysOf(prev[s].recs) \cup CandidateKeys(s)
            IN  /\ StatusRows(tbl) =
                       { << k[1], k[2], 0 >> : k \in AB } \cup
                       StatusRows(BagFilter(LAMBDA m : KeyOf(m) \notin AB, T0))
                /\ prev[s].ins + inserted[s] = Cardinality(AB \ KeysOf(T0))

\* two calls with different candidate sets both inserted rows, on a table with rows
C26_Witness ==
    \E s \in Sessions :
        /\ SecondOfTwo(s)
        /\ prev[s].tbl0 # EmptyBag
        /\ KeysOf(prev[s].recs) # CandidateKeys(s)
        /\ prev[s].ins > 0
        /\ inserted[s] > 0

\* ------------------------------------------------------------ location tracker
\* self.driver names a driver whose browser runs: a method call on it succeeds
\* (on None it raises AttributeError, on a driver that was quit WebDriverException)
Usable(d) == d # 0 /\ dstate[d] = "open"

\* Start Tracking: if not self.tracking, set it and start a thread on track_location
ClickStart ==
    /\ ui = "idle"
    /\ nclicks < MaxButtonClicks
    /\ nclicks' = nclicks + 1
    /\ lastClick' = "start"
    /\ IF tracking
       THEN UNCHANGED << tracking, wpc >>
       ELSE \E w \in Workers :
               /\ wpc[w] = "none"
               /\ \A o \in Workers : o < w => wpc[o] # "none"
               /\ tracking' = TRUE
               /\ wpc' = [wpc EXCEPT ![w] = "init"]
    /\ UNCHANGED << driverRef, dstate, used, ui >>
    /\ UNCHANGED << reconcileVars, tradeVars >>

\* Stop Tracking, up to its test of self.driver
ClickStop ==
    /\ ui = "idle"
    /\ nclicks < MaxButtonClicks
    /\ nclicks' = nclicks + 1
    /\ lastClick' = "stop"
    /\ tracking' = FALSE
    /\ ui' = IF driverRef # 0 THEN "quitting" ELSE "idle"
    /\ UNCHANGED << driverRef, wpc, dstate, used >>
    /\ UNCHANGED << reconcileVars, tradeVars >>

\* stop_tracking: self.driver.quit() (any exception passed over), self.driver = None
StopQuit ==
    /\ ui = "quitting"
    /\ dstate' = IF driverRef # 0 THEN [dstate EXCEPT ![driverRef] = "quit"] ELSE dstate
    /\ driverRef' = 0
    /\ ui' = "idle"
    /\ UNCHANGED << tracking, wpc, used, nclicks, lastClick >>
    /\ UNCHANGED << reconcileVars, tradeVars >>

\* track_location up to self.driver = webdriver.Edge(...): the browser starts,
\* or the constructor raises
WorkerCreate(w) ==
    /\ wpc[w] = "init"
    /\ \/ /\ dstate' = [dstate EXCEPT ![w] = "open"]
          /\ driverRef' = w
          /\ wpc' = [wpc EXCEPT ![w] = "setup"]
       \/ /\ wpc' = [wpc EXCEPT ![w] = "except"]
          /\ UNCHANGED << dstate, driverRef >>
    /\ UNCHANGED << tracking, used, ui, nclicks, lastClick >>
    /\ UNCHANGED << reconcileVars, tradeVars >>

\* set_page_load_timeout, get, current_url on self.driver; a failure is raised
\* to the outer except
WorkerNavigate(w) ==
    /\ wpc[w] = "setup"
    /\ IF Usable(driverRef)
       THEN /\ used' = [used EXCEPT ![w] = @ \cup {driverRef}]
            /\ \E ok \in BOOLEAN : wpc' = [wpc EXCEPT ![w] = IF ok THEN "loop" ELSE "except"]
       ELSE /\ wpc' = [wpc EXCEPT ![w] = "except"]
            /\ UNCHANGED used
    /\ UNCHANGED << tracking, driverRef, dstate, ui, nclicks, lastClick >>
    /\ UNCHANGED << reconcileVars, tradeVars >>

\* except Exception (outer): self.tracking = False
WorkerExcept(w) ==
    /\ wpc[w] = "except"
    /\ tracking' = FALSE
    /\ wpc' = [wpc EXCEPT ![w] = "finally"]
    /\ UNCHANGED << driverRef, dstate, used, ui, nclicks, lastClick >>
    /\ UNCHANGED << reconcileVars, tradeVars >>

\* while self.tracking:
WorkerTest(w) ==
    /\ wpc[w] = "loop"
    /\ wpc' = [wpc EXCEPT ![w] = IF tracking THEN "extract" ELSE "finally"]
    /\ UNCHANGED << tracking, driverRef, dstate, used, ui, nclicks, lastClick >>
    /\ UNCHANGED << reconcileVars, tradeVars >>

\* the loop body up to "if self.tracking:": self.driver.current_url and the
\* page source; an exception goes to the inner except, which sleeps
WorkerExtract(w) ==
    /\ wpc[w] = "extract"
    /\ IF Usable(driverRef)
       THEN /\ used' = [used EXCEPT ![w] = @ \cup {driverRef}]
            /\ wpc' = [wpc EXCEPT ![w] = IF tracking THEN "sleep" ELSE "loop"]
       ELSE /\ wpc' = [wpc EXCEPT ![w] = "backoff"]
            /\ UNCHANGED used
    /\ UNCHANGED << tracking, driverRef, dstate, ui, nclicks, lastClick >>
    /\ UNCHANGED << reconcileVars, tradeVars >>

\* time.sleep(self.update_interval) is over: self.driver.refresh()
WorkerRefresh(w) ==
    /\ wpc[w] = "sleep"
    /\ IF Usable(driverRef)
       THEN /\ used' = [used EXCEPT ![w] = @ \cup {driverRef}]
            /\ wpc' = [wpc EXCEPT ![w] = "loop"]
       ELSE /\ wpc' = [wpc EXCEPT ![w] = "backoff"]
            /\ UNCHANGED used
    /\ UNCHANGED << tracking, driverRef, dstate, ui, nclicks, lastClick >>
    /\ UNCHANGED << reconcileVars, tradeVars >>

\* the sleep of the inner except is over
WorkerBackoff(w) ==
    /\ wpc[w] = "backoff"
    /\ wpc' = [wpc EXCEPT ![w] = "loop"]
    /\ UNCHANGED << tracking, driverRef, dstate, used, ui, nclicks, lastClick >>
    /\ UNCHANGED << reconcileVars, tradeVars >>

\* finally: if self.driver: self.driver.quit(); the thread ends
WorkerFinally(w) ==
    /\ wpc[w] = "finally"
    /\ IF driverRef # 0
       THEN /\ dstate' = [dstate EXCEPT ![driverRef] = "quit"]
            /\ used' = [used EXCEPT ![w] = @ \cup {driverRef}]
       ELSE UNCHANGED << dstate, used >>
    /\ wpc' = [wpc EXCEPT ![w] = "ended"]
    /\ UNCHANGED << tracking, driverRef, ui, nclicks, lastClick >>
    /\ UNCHANGED << reconcileVars, tradeVars >>

WorkerStep(w) ==
    \/ WorkerCreate(w)
    \/ WorkerNavigate(w)
    \/ WorkerExcept(w)
    \/ WorkerTest(w)
    \/ WorkerExtract(w)
    \/ WorkerRefresh(w)
    \/ WorkerBackoff(w)
    \/ WorkerFinally(w)

WorkersStep == \E w \in Workers : WorkerStep(w)

TrackerNext == ClickStart \/ ClickStop \/ StopQuit \/ WorkersStep

\* the window is open on an association table that plays no part
TrackerStart == Init /\ tbl = EmptyBag

TrackerSpec == TrackerStart /\ [][TrackerNext]_vars

\* every thread that can run does, and stop_tracking runs to its end
TrackerLiveSpec ==
    /\ TrackerSpec
    /\ WF_vars(StopQuit)
    /\ \A w \in Workers : WF_vars(WorkerStep(w))

\* the worker w is inside the body of the tracking loop
InLoopBody(w) == wpc[w] \in {"extract", "sleep", "backoff"}

\* C27: at most one worker is inside the tracking loop at any time, and a
\* worker calls the driver it created only
C27_SingleWorker ==
    /\ \A w1, w2 \in Workers : (InLoopBody(w1) /\ InLoopBody(w2)) => w1 = w2
    /\ \A w \in Workers : used[w] \subseteq {w}

\* no worker thread runs; no browser that was started still runs
AllEnded == \A w \in Workers : wpc[w] \in {"none", "ended"}
AllQuit == \A d \in Workers : dstate[d] # "open"

\* C28: after a click on Stop Tracking that no other click follows, every
\* worker thread ends and by then every driver that was started has been quit
C28_Shutdown ==
    \A n \in 1..MaxButtonClicks :
        (nclicks = n /\ lastClick = "stop") ~> ((AllEnded /\ AllQuit) \/ nclicks > n)

\* ------------------------------------------------------------ trading script
\* webdriver.Chrome(...) starts, or preparing or starting it raises (caught)
TradeChrome ==
    /\ tpc = "chrome"
    /\ \/ browser' = "chrome" /\ tpc' = "navigate"
       \/ browser' = "none" /\ tpc' = "edge"
    /\ UNCHANGED << attempt, matched, tclicks, misses, quits, tresult >>
    /\ UNCHANGED << reconcileVars, trackerVars >>

\* if driver is None: webdriver.Edge(...) starts, or main raises
TradeEdge ==
    /\ tpc = "edge"
    /\ \/ browser' = "edge" /\ tpc' = "navigate" /\ tresult' = tresult
       \/ browser' = "none" /\ tpc' = "done" /\ tresult' = "raised"
    /\ UNCHANGED << attempt, matched, tclicks, misses, quits >>
    /\ UNCHANGED << reconcileVars, trackerVars >>

\* driver.get(url) and the wait for the body: an exception leaves the try block
TradeNavigate ==
    /\ tpc = "navigate"
    /\ \E ok \in BOOLEAN : tpc' = IF ok THEN "matching" ELSE "finally_raise"
    /\ UNCHANGED << browser, attempt, matched, tclicks, misses, quits, tresult >>
    /\ UNCHANGED << reconcileVars, trackerVars >>

\* click 'start matching', or log that it could not be clicked
TradeMatching ==
    /\ tpc = "matching"
    /\ matched' \in BOOLEAN
    /\ attempt' = 0
    /\ tpc' = "trading"
    /\ UNCHANGED << browser, tclicks, misses, quits, tresult >>
    /\ UNCHANGED << reconcileVars, trackerVars >>

\* one pass of the for loop in which the button is clickable: click, sleep
TradeClick ==
    /\ tpc = "trading"
    /\ attempt < TradeAttempts
    /\ tclicks' = tclicks + 1
    /\ attempt' = attempt + 1
    /\ UNCHANGED << tpc, browser, matched, misses, quits, tresult >>
    /\ UNCHANGED << reconcileVars, trackerVars >>

\* a pass that went on with the next pass after a miss
TradeMissContinues ==
    /\ tpc = "trading"
    /\ attempt < TradeAttempts
    /\ misses' = misses + 1
    /\ attempt' = attempt + 1
    /\ UNCHANGED << tpc, browser, matched, tclicks, quits, tresult >>
    /\ UNCHANGED << reconcileVars, trackerVars >>

\* one pass in which the wait or the click raises: break
TradeMiss ==
    /\ tpc = "trading"
    /\ attempt < TradeAttempts
    /\ misses' = misses + 1
    /\ tpc' = "finally"
    /\ UNCHANGED << browser, attempt, matched, tclicks, quits, tresult >>
    /\ UNCHANGED << reconcileVars, trackerVars >>

\* range(10) is exhausted
TradeLoopEnd ==
    /\ tpc = "trading"
    /\ attempt = TradeAttempts
    /\ tpc' = "finally"
    /\ UNCHANGED << browser, attempt, matched, tclicks, misses, quits, tresult >>
    /\ UNCHANGED << reconcileVars, trackerVars >>

\* finally: driver.quit() (an exception of it passed over); main returns, or
\* the exception that left the try block goes on
TradeFinally ==
    /\ tpc \in {"finally", "finally_raise"}
    /\ quits' = quits + 1
    /\ tresult' = IF tpc = "finally" THEN "returned" ELSE "raised"
    /\ tpc' = "done"
    /\ UNCHANGED << browser, attempt, matched, tclicks, misses >>
    /\ UNCHANGED << reconcileVars, trackerVars >>

TradeNext ==
    \/ TradeChrome
    \/ TradeEdge
    \/ TradeNavigate
    \/ TradeMatching
    \/ TradeClick
    \/ TradeMiss
    \/ TradeLoopEnd
    \/ TradeFinally

\* main is entered, on an association table that plays no part
TradeStart == Init /\ tbl = EmptyBag

TradeSpec == TradeStart /\ [][TradeNext]_vars

\* C29: with a driver started, main clicks 'Start trading' at most 10 times,
\* makes no attempt after the first that found no clickable button, and has
\* called quit on the browser once when it ends, returning or raising, and
\* not before
C29_ClickLoop ==
    /\ tclicks <= TradeAttempts
    /\ misses <= 1
    /\ misses = 1 => tpc \in {"finally", "done"}
    /\ (browser # "none" /\ tpc = "done") => quits = 1
    /\ tpc # "done" => quits = 0

\* ten clicks, then the browser is quit and main returns
C29_Witness ==
    /\ browser # "none"
    /\ tclicks = TradeAttempts
    /\ tpc = "done"
    /\ tresult = "returned"
    /\ quits = 1

============================================================================
